---- MODULE Spec2Model ----
(***************************************************************************)
(* A model of the two engines of the AI playground:                        *)
(*   - the DeepSearch research agent (lib/deepsearch/researcher.ts) and    *)
(*     the deepsearch API route that calls it,                             *)
(*   - the RAG write path: the chunker (lib/rag/chunker.ts) and the        *)
(*     in-memory vector index (lib/rag/vectordb.ts).                       *)
(* Strings the code inspects character by character are sequences of       *)
(* one-character strings; strings the code only passes around are TLA+     *)
(* strings.  An optional field (TypeScript `x?: T`) is <<>> when unset and *)
(* <<v>> when set to v.                                                    *)
(***************************************************************************)
EXTENDS Integers, Sequences, FiniteSets, TLC

VARIABLES
    \* ---- research agent (DeepSearchAgent.research and its caller) ----
    pc,               \* position of the running research call
    query,            \* the DeepSearchQuery object built by research
    onProgress,       \* TRUE when the caller passed a progress callback
    maxSubQuestions,  \* this.options.maxSubQuestions
    content,          \* the decomposition response text, once received
    subQuestions,     \* local of research: the array breakdownQuestion returned
    searchResults,    \* local of research: the array the loop pushes to
    progress,         \* the updates the callback has received, in order
    caught,           \* the error the catch block of research holds
    settled,          \* how the promise of research settled, as seen by the caller
    response,         \* the HTTP response of POST /api/deepsearch
    \* ---- chunker (splitIntoChunks) ----
    cpc, text, chunkSize, chunkOverlap, minChunkSize,
    normalizedText, chunks, startIndex, chunkIndex, iterations,
    \* ---- vector index (vectordb.ts module state and running calls) ----
    vectorStore, documentStore,
    calls,            \* per document id: the addDocument call and whether a delete returned
    search,           \* the searchSimilar call
    \* ---- file parsers (parsers.ts) ----
    filename,         \* the file name, as the parts between its dots
    buffer,           \* the file content, as its lines
    verdict,          \* what isSupported(filename) returned, once called
    parsed,           \* how parseFile(buffer, filename) ended, once called
    \* ---- knowledge base client (FileUploader, KnowledgeBase, useRAGStore) ----
    files,            \* FileUploader's list of UploadedFile entries
    uploads,          \* per File: the uploadSingleFile call and what its fetch gave
    documents,        \* useRAGStore().documents, as document ids
    indexed,          \* the documents the server's vector index holds
    queried,          \* the documents whose chunks the last /api/rag/query returned
    \* ---- chat and compare routes ----
    chatRequest,      \* the body of the request and the route it is posted to
    chatSent,         \* the message lists handed to the model provider, in order
    chatResponse      \* the status of the HTTP response, once a route answered early

researchVars == <<pc, query, onProgress, maxSubQuestions, content, subQuestions,
                  searchResults, progress, caught, settled, response>>
chunkVars == <<cpc, text, chunkSize, chunkOverlap, minChunkSize,
               normalizedText, chunks, startIndex, chunkIndex, iterations>>
indexVars == <<vectorStore, documentStore, calls, search>>
parseVars == <<filename, buffer, verdict, parsed>>
clientVars == <<files, uploads, documents, indexed, queried>>
chatVars == <<chatRequest, chatSent, chatResponse>>
otherVars == <<parseVars, clientVars, chatVars>>
vars == <<researchVars, chunkVars, indexVars, otherVars>>

(***************************************************************************)
(* Generic helpers: JavaScript array and string primitives.                *)
(***************************************************************************)
None == <<>>
Some(v) == <<v>>

Min(a, b) == IF a < b THEN a ELSE b
Max(a, b) == IF a > b THEN a ELSE b

\* Array.prototype.slice / String.prototype.slice(begin, end), negative
\* indices counting from the end.  Indices are 0-based as in the source.
Slice(s, begin, end) ==
    LET len == Len(s)
        b == IF begin < 0 THEN Max(len + begin, 0) ELSE Min(begin, len)
        e == IF end < 0 THEN Max(len + end, 0) ELSE Min(end, len)
    IN  IF e <= b THEN <<>> ELSE SubSeq(s, b + 1, e)

IsSpace(c) == c \in {" ", "\n", "\r", "\t"}
IsDigit(c) == c \in {"0", "1", "2", "3", "4", "5", "6", "7", "8", "9"}

\* The rest of s from its first character that is not white space.
TrimStart(s) ==
    IF \A k \in 1..Len(s) : IsSpace(s[k]) THEN <<>>
    ELSE LET first == CHOOSE k \in 1..Len(s) :
                         ~IsSpace(s[k]) /\ \A j \in 1..(k - 1) : IsSpace(s[j])
         IN  SubSeq(s, first, Len(s))

\* s up to its last character that is not white space.
TrimEnd(s) ==
    IF \A k \in 1..Len(s) : IsSpace(s[k]) THEN <<>>
    ELSE LET last == CHOOSE k \in 1..Len(s) :
                        ~IsSpace(s[k]) /\ \A j \in (k + 1)..Len(s) : IsSpace(s[j])
         IN  SubSeq(s, 1, last)

\* String.prototype.trim
Trim(s) == TrimEnd(TrimStart(s))

RECURSIVE Concat(_)
Concat(ss) == IF ss = <<>> THEN <<>> ELSE Head(ss) \o Concat(Tail(ss))

\* Array.prototype.findIndex(c => c.url === url), 1-based; 0 when absent.
RECURSIVE FindIndexFrom(_, _, _)
FindIndexFrom(s, url, k) ==
    IF k > Len(s) THEN 0
    ELSE IF s[k].url = url THEN k
    ELSE FindIndexFrom(s, url, k + 1)
FindIndex(s, url) == FindIndexFrom(s, url, 1)

(***************************************************************************)
(* Research agent: bounds and inputs.                                      *)
(***************************************************************************)
\* Largest number of lines in a decomposition response.
MaxLines == 2

\* The research question (non-blank, as the route requires).
Question == <<"w", "h", "y">>

\* Lines a decomposition response is made of: an empty line, two numbered
\* lines, an unnumbered line and a bare number.
LineSet ==
    { <<>>,
      <<"1", ".", " ", "a">>,
      <<"2", ".", "b", " ">>,
      <<" ", "c">>,
      <<"1", ".">> }

\* content.split('\n') of every response of 1..MaxLines lines; the empty
\* response '' splits into the single empty line.
RECURSIVE SeqsOfLen(_, _)
SeqsOfLen(S, n) ==
    IF n = 0 THEN { <<>> }
    ELSE { Append(s, x) : s \in SeqsOfLen(S, n - 1), x \in S }
Contents == UNION { SeqsOfLen(LineSet, n) : n \in 1..MaxLines }

\* Values of maxSubQuestions the route passes through from the request body
\* (it validates none: zero and negative numbers reach the agent).
MaxSubQuestionsValues == {-1, 0, 1, 2, 5}

\* A word of a search answer: the URL-shaped match /https?:\/\/[^\s\]]+/ found
\* in it is base followed by trail, trail being its trailing punctuation;
\* base = "" when the word holds no URL.
Word(base, trail) == [base |-> base, trail |-> trail]
AnswerSet ==
    { <<>>,
      << Word("http://a", "") >>,
      << Word("", ""), Word("http://a", "."), Word("http://b", "") >>,
      << Word("http://b", ")"), Word("http://a", ""), Word("http://b", "") >> }

SynthesisSet == {"", "report"}

(***************************************************************************)
(* Research agent: pure functions.                                         *)
(***************************************************************************)
RECURSIVE LeadingDigits(_)
LeadingDigits(s) ==
    IF s # <<>> /\ IsDigit(Head(s)) THEN 1 + LeadingDigits(Tail(s)) ELSE 0

\* line.replace(/^\d+\.\s*/, '')
StripNumber(line) ==
    LET d == LeadingDigits(line)
    IN  IF d >= 1 /\ Len(line) > d /\ line[d + 1] = "."
        THEN TrimStart(SubSeq(line, d + 2, Len(line)))
        ELSE line

\* The parsed list before the fallback: non-blank lines, number prefix
\* stripped, trimmed, empty ones dropped, at most maxSub of them.
NumberedList(lines, maxSub) ==
    LET nonBlank == SelectSeq(lines, LAMBDA l : Trim(l) # <<>>)
        stripped == [k \in 1..Len(nonBlank) |-> Trim(StripNumber(nonBlank[k]))]
    IN  Slice(SelectSeq(stripped, LAMBDA q : Len(q) > 0), 0, maxSub)

\* breakdownQuestion without its fallback to the original question.
ParseWithoutFallback(lines, question, maxSub) == NumberedList(lines, maxSub)

\* breakdownQuestion, from the response content on.
ParseSubQuestions(lines, question, maxSub) ==
    LET questions == NumberedList(lines, maxSub)
    IN  IF Len(questions) > 0 THEN questions ELSE <<question>>

\* url.replace(/[.,;:!?)]+$/, '') on a match base+trail.
CleanUrl(w) == w.base

\* extractCitations: one citation per URL match, numbered within the text.
ExtractCitations(answer) ==
    LET urls == SelectSeq(answer, LAMBDA w : w.base # "")
    IN  [k \in 1..Len(urls) |->
            [id |-> k - 1, title |-> k, url |-> CleanUrl(urls[k])]]

\* searchSubQuestion, from the response content on.
SearchResult(question, answer) ==
    [question |-> question, answer |-> answer, sources |-> ExtractCitations(answer)]

\* synthesize returning every collected citation, duplicates included.
AllCitations(results) == Concat([k \in 1..Len(results) |-> results[k].sources])

\* synthesize: allCitations.filter((c, i, self) => i === self.findIndex(...)).
UniqueCitations(results) ==
    LET allCitations == Concat([k \in 1..Len(results) |-> results[k].sources])
        idx == { k \in 1..Len(allCitations) :
                    k = FindIndex(allCitations, allCitations[k].url) }
        F[k \in 0..Len(allCitations)] ==
            IF k = 0 THEN <<>>
            ELSE IF k \in idx THEN Append(F[k - 1], allCitations[k]) ELSE F[k - 1]
    IN  F[Len(allCitations)]

\* searchResults.unshift(result): the result lands at the front.
Unshift(results, result) == <<result>> \o results

\* searchResults.push(result)
Push(results, result) == Append(results, result)

\* A Partial<DeepSearchQuery> handed to the progress callback.
Update(status, subQs, results, synthesis, citations) ==
    [status |-> status, subQuestions |-> subQs, searchResults |-> results,
     synthesis |-> synthesis, citations |-> citations]

(***************************************************************************)
(* Research agent: research(question, onProgress) step by step, and the    *)
(* route that awaits it.                                                   *)
(***************************************************************************)
NoCaller == [kind |-> "pending", value |-> None, error |-> None]

ResearchInit ==
    /\ pc = "setSearching"
    /\ query = [question |-> Question, subQuestions |-> <<>>, searchResults |-> <<>>,
                status |-> "pending", synthesis |-> None, citations |-> None]
    /\ onProgress \in BOOLEAN
    /\ maxSubQuestions \in MaxSubQuestionsValues
    /\ content = None
    /\ subQuestions = <<>>
    /\ searchResults = <<>>
    /\ progress = <<>>
    /\ caught = None
    /\ settled = NoCaller
    /\ response = None

\* onProgress?.(update) inside the try block: nothing without a callback;
\* with one, the callback receives the update and returns or throws.
Notify(update, next) ==
    IF ~onProgress
    THEN /\ pc' = next
         /\ UNCHANGED <<progress, caught>>
    ELSE /\ progress' = Append(progress, update)
         /\ \/ pc' = next /\ UNCHANGED caught
            \/ pc' = "catch" /\ caught' = Some("callback threw")

\* An awaited provider call rejects: control passes to the catch block.
Throw(error) ==
    /\ pc' = "catch"
    /\ caught' = Some(error)

SetSearching ==
    /\ pc = "setSearching"
    /\ query' = [query EXCEPT !.status = "searching"]
    /\ pc' = "notifySearching"
    /\ UNCHANGED <<onProgress, maxSubQuestions, content, subQuestions, searchResults,
                   progress, caught, settled, response>>
    /\ UNCHANGED <<chunkVars, indexVars, otherVars>>

NotifySearching ==
    /\ pc = "notifySearching"
    /\ Notify(Update(Some("searching"), None, None, None, None), "breakdown")
    /\ UNCHANGED <<query, onProgress, maxSubQuestions, content, subQuestions,
                   searchResults, settled, response>>
    /\ UNCHANGED <<chunkVars, indexVars, otherVars>>

\* await this.breakdownQuestion(question) returns; query.subQuestions is set.
BreakdownReturns ==
    /\ pc = "breakdown"
    /\ \E lines \in Contents :
        /\ content' = Some(lines)
        /\ subQuestions' = ParseSubQuestions(lines, Question, maxSubQuestions)
    /\ query' = [query EXCEPT !.subQuestions = subQuestions']
    /\ pc' = "notifySubQuestions"
    /\ UNCHANGED <<onProgress, maxSubQuestions, searchResults, progress, caught,
                   settled, response>>
    /\ UNCHANGED <<chunkVars, indexVars, otherVars>>

\* this.client.chat rejects inside breakdownQuestion (network error, non-2xx).
BreakdownFails ==
    /\ pc = "breakdown"
    /\ Throw("decomposition failed")
    /\ UNCHANGED <<query, onProgress, maxSubQuestions, content, subQuestions,
                   searchResults, progress, settled, response>>
    /\ UNCHANGED <<chunkVars, indexVars, otherVars>>

NotifySubQuestions ==
    /\ pc = "notifySubQuestions"
    /\ Notify(Update(None, Some(subQuestions), None, None, None), "loop")
    /\ UNCHANGED <<query, onProgress, maxSubQuestions, content, subQuestions,
                   searchResults, settled, response>>
    /\ UNCHANGED <<chunkVars, indexVars, otherVars>>

\* for (const subQ of subQuestions): the next element, or the end of the loop.
LoopNext ==
    /\ pc = "loop"
    /\ pc' = IF Len(searchResults) < Len(subQuestions) THEN "search" ELSE "setSynthesizing"
    /\ UNCHANGED <<query, onProgress, maxSubQuestions, content, subQuestions,
                   searchResults, progress, caught, settled, response>>
    /\ UNCHANGED <<chunkVars, indexVars, otherVars>>

\* await this.searchSubQuestion(subQ) returns; the result is pushed and a copy
\* of the array stored in the query.
SearchReturns ==
    /\ pc = "search"
    /\ \E answer \in AnswerSet :
        searchResults' =
            Push(searchResults,
                 SearchResult(subQuestions[Len(searchResults) + 1], answer))
    /\ query' = [query EXCEPT !.searchResults = searchResults']
    /\ pc' = "notifyResults"
    /\ UNCHANGED <<onProgress, maxSubQuestions, content, subQuestions, progress,
                   caught, settled, response>>
    /\ UNCHANGED <<chunkVars, indexVars, otherVars>>

\* this.client.chat rejects inside searchSubQuestion.
SearchFails ==
    /\ pc = "search"
    /\ Throw("search failed")
    /\ UNCHANGED <<query, onProgress, maxSubQuestions, content, subQuestions,
                   searchResults, progress, settled, response>>
    /\ UNCHANGED <<chunkVars, indexVars, otherVars>>

NotifyResults ==
    /\ pc = "notifyResults"
    /\ Notify(Update(None, None, Some(query.searchResults), None, None), "loop")
    /\ UNCHANGED <<query, onProgress, maxSubQuestions, content, subQuestions,
                   searchResults, settled, response>>
    /\ UNCHANGED <<chunkVars, indexVars, otherVars>>

SetSynthesizing ==
    /\ pc = "setSynthesizing"
    /\ query' = [query EXCEPT !.status = "synthesizing"]
    /\ pc' = "notifySynthesizing"
    /\ UNCHANGED <<onProgress, maxSubQuestions, content, subQuestions, searchResults,
                   progress, caught, settled, response>>
    /\ UNCHANGED <<chunkVars, indexVars, otherVars>>

NotifySynthesizing ==
    /\ pc = "notifySynthesizing"
    /\ Notify(Update(Some("synthesizing"), None, None, None, None), "synthesize")
    /\ UNCHANGED <<query, onProgress, maxSubQuestions, content, subQuestions,
                   searchResults, settled, response>>
    /\ UNCHANGED <<chunkVars, indexVars, otherVars>>

\* await this.synthesize(question, searchResults) returns; synthesis and
\* citations are stored in the query.
SynthesizeReturns ==
    /\ pc = "synthesize"
    /\ \E synthesis \in SynthesisSet :
        query' = [query EXCEPT !.synthesis = Some(synthesis),
                               !.citations = Some(UniqueCitations(searchResults))]
    /\ pc' = "setComplete"
    /\ UNCHANGED <<onProgress, maxSubQuestions, content, subQuestions, searchResults,
                   progress, caught, settled, response>>
    /\ UNCHANGED <<chunkVars, indexVars, otherVars>>

SynthesizeFails ==
    /\ pc = "synthesize"
    /\ Throw("synthesis failed")
    /\ UNCHANGED <<query, onProgress, maxSubQuestions, content, subQuestions,
                   searchResults, progress, settled, response>>
    /\ UNCHANGED <<chunkVars, indexVars, otherVars>>

SetComplete ==
    /\ pc = "setComplete"
    /\ query' = [query EXCEPT !.status = "complete"]
    /\ pc' = "notifyComplete"
    /\ UNCHANGED <<onProgress, maxSubQuestions, content, subQuestions, searchResults,
                   progress, caught, settled, response>>
    /\ UNCHANGED <<chunkVars, indexVars, otherVars>>

NotifyComplete ==
    /\ pc = "notifyComplete"
    /\ Notify(Update(Some("complete"), None, None, query.synthesis, query.citations),
              "return")
    /\ UNCHANGED <<query, onProgress, maxSubQuestions, content, subQuestions,
                   searchResults, settled, response>>
    /\ UNCHANGED <<chunkVars, indexVars, otherVars>>

\* return query
Return ==
    /\ pc = "return"
    /\ settled' = [kind |-> "fulfilled", value |-> Some(query), error |-> None]
    /\ pc' = "done"
    /\ UNCHANGED <<query, onProgress, maxSubQuestions, content, subQuestions,
                   searchResults, progress, caught, response>>
    /\ UNCHANGED <<chunkVars, indexVars, otherVars>>

\* catch (error) { query.status = 'error'; ...
Catch ==
    /\ pc = "catch"
    /\ query' = [query EXCEPT !.status = "error"]
    /\ pc' = "notifyError"
    /\ UNCHANGED <<onProgress, maxSubQuestions, content, subQuestions, searchResults,
                   progress, caught, settled, response>>
    /\ UNCHANGED <<chunkVars, indexVars, otherVars>>

\* ... onProgress?.({ status: 'error' }); throw error }: the promise rejects
\* with the caught error, or with the callback's own error when it throws.
NotifyErrorAndRethrow ==
    /\ pc = "notifyError"
    /\ IF ~onProgress
       THEN /\ UNCHANGED progress
            /\ settled' = [kind |-> "rejected", value |-> None, error |-> caught]
       ELSE /\ progress' =
                Append(progress, Update(Some("error"), None, None, None, None))
            /\ \/ settled' = [kind |-> "rejected", value |-> None, error |-> caught]
               \/ settled' = [kind |-> "rejected", value |-> None,
                              error |-> Some("callback threw")]
    /\ pc' = "done"
    /\ UNCHANGED <<query, onProgress, maxSubQuestions, content, subQuestions,
                   searchResults, caught, response>>
    /\ UNCHANGED <<chunkVars, indexVars, otherVars>>

\* The route once research has settled.  POST (no callback) answers 200 with
\* the query as data, or 500 with the error message alone; GET (callback)
\* closes the event stream with a [DONE] or an error event.
Respond ==
    /\ pc = "done"
    /\ response = None
    /\ response' =
         Some(IF settled.kind = "fulfilled"
              THEN [status |-> 200,
                    data |-> IF onProgress THEN None ELSE settled.value,
                    error |-> None]
              ELSE [status |-> IF onProgress THEN 200 ELSE 500,
                    data |-> None,
                    error |-> settled.error])
    /\ UNCHANGED <<pc, query, onProgress, maxSubQuestions, content, subQuestions,
                   searchResults, progress, caught, settled>>
    /\ UNCHANGED <<chunkVars, indexVars, otherVars>>

ResearchNext ==
    \/ SetSearching
    \/ NotifySearching
    \/ BreakdownReturns
    \/ BreakdownFails
    \/ NotifySubQuestions
    \/ LoopNext
    \/ SearchReturns
    \/ SearchFails
    \/ NotifyResults
    \/ SetSynthesizing
    \/ NotifySynthesizing
    \/ SynthesizeReturns
    \/ SynthesizeFails
    \/ SetComplete
    \/ NotifyComplete
    \/ Return
    \/ Catch
    \/ NotifyErrorAndRethrow
    \/ Respond

(***************************************************************************)
(* Chunker: bounds and inputs.                                             *)
(***************************************************************************)
\* Longest input text.
MaxTextLen == 6
\* Loop iterations explored of a call of splitIntoChunks.
MaxIterations == 6

\* Characters of the input texts: a letter and the break characters.
Alphabet == {"a", " ", ".", "\n"}
\* Texts with carriage returns, for the normalisation of line ends.
CarriageReturnTexts ==
    { <<"\r">>, <<"a", "\r", "\n", "a">>, <<"a", "\r", "a">>,
      <<"a", "\r", "\n", "\r", "\r", "a">>, <<"\r", "\n", "a", "a", "a">> }
Texts ==
    UNION { SeqsOfLen(Alphabet, n) : n \in 0..MaxTextLen } \cup CarriageReturnTexts

\* Option values passed to splitIntoChunks.
ChunkSizes == {2, 5}
ChunkOverlaps == {0, 2, 3}
MinChunkSizes == {0, 1, 2}

\* The 3000-character documents of the end-to-end scenario: letters with a
\* run of gap spaces after the first lead characters, and a sentence end
\* before position stop.
Repeat(c, n) == [i \in 1..n |-> c]
ScenarioTexts ==
    { Repeat("a", lead) \o Repeat(" ", gap)
        \o Repeat("a", stop - 2 - lead - gap) \o <<".", " ">>
        \o Repeat("a", 3000 - stop) :
        lead \in {850, 900}, gap \in {0, 50, 1000}, stop \in {2000, 2750} }

\* findBreakPoint looks at most this far back from the ideal end.
BreakWindow == 400

(***************************************************************************)
(* Chunker: pure functions.                                                *)
(***************************************************************************)
\* .replace(/\r\n/g, '\n').replace(/\r/g, '\n'): the newline of every
\* carriage return + newline pair goes, every carriage return becomes a
\* newline.
NormalizeNewlines(s) ==
    LET at == [k \in 1..Len(s) |->
                 [c |-> s[k], afterReturn |-> k > 1 /\ s[k - 1] = "\r"]]
        kept == SelectSeq(at, LAMBDA p : ~(p.c = "\n" /\ p.afterReturn))
    IN  [k \in 1..Len(kept) |-> IF kept[k].c = "\r" THEN "\n" ELSE kept[k].c]

\* .replace(/\n{3,}/g, '\n\n'): of a run of newlines the first two stay.
CollapseNewlines(s) ==
    LET at == [k \in 1..Len(s) |->
                 [c |-> s[k],
                  afterTwo |-> k > 2 /\ s[k - 1] = "\n" /\ s[k - 2] = "\n"]]
        kept == SelectSeq(at, LAMBDA p : ~(p.c = "\n" /\ p.afterTwo))
    IN  [k \in 1..Len(kept) |-> kept[k].c]

Normalize(t) == Trim(CollapseNewlines(NormalizeNewlines(t)))

\* String.prototype.lastIndexOf(pattern), 0-based; -1 when absent.
LastIndexOf(s, pattern) ==
    LET n == Len(pattern)
        hits == { k \in 0..(Len(s) - n) : SubSeq(s, k + 1, k + n) = pattern }
    IN  IF hits = {} THEN -1 ELSE CHOOSE k \in hits : \A j \in hits : j <= k

\* A test that accepts a break anywhere in the window.
AnyBreak(breakIndex, searchText) == breakIndex # -1

\* breakIndex !== -1 && breakIndex > searchText.length * 0.5
GoodBreak(breakIndex, searchText) ==
    breakIndex # -1 /\ 2 * breakIndex > Len(searchText)

SentenceBreaks ==
    << <<".", " ">>, <<"!", " ">>, <<"?", " ">>,
       <<".", "\n">>, <<"!", "\n">>, <<"?", "\n">> >>

findBreakPoint(t, start, idealEnd) ==
    LET searchStart == Max(start, idealEnd - BreakWindow)
        searchText == Slice(t, searchStart, idealEnd)
        paragraphBreak == LastIndexOf(searchText, <<"\n", "\n">>)
        good == { k \in 1..Len(SentenceBreaks) :
                    GoodBreak(LastIndexOf(searchText, SentenceBreaks[k]), searchText) }
        lineBreak == LastIndexOf(searchText, <<"\n">>)
        spaceBreak == LastIndexOf(searchText, <<" ">>)
    IN  IF GoodBreak(paragraphBreak, searchText)
        THEN searchStart + paragraphBreak + 2
        ELSE IF good # {}
        THEN LET k == CHOOSE k \in good : \A j \in good : k <= j
             IN  searchStart + LastIndexOf(searchText, SentenceBreaks[k])
                             + Len(SentenceBreaks[k])
        ELSE IF GoodBreak(lineBreak, searchText)
        THEN searchStart + lineBreak + 1
        ELSE IF GoodBreak(spaceBreak, searchText)
        THEN searchStart + spaceBreak + 1
        ELSE idealEnd

\* The chunk descriptor pushed for [start, end); its id is the ordinal.
Chunk(index, chunkContent, start, end) ==
    [id |-> index, content |-> chunkContent, startIndex |-> start, endIndex |-> end]

\* A loop that emits every segment, whatever its length.
AlwaysEmit(chunkContent, min) == TRUE

\* content.length >= minChunkSize
MeetsMinimum(chunkContent, min) == Len(chunkContent) >= min

\* A loop that puts each new chunk in front of the others.
UnshiftChunk(list, chunk) == <<chunk>> \o list

\* chunks.push({...})
PushChunk(list, chunk) == Append(list, chunk)

\* startIndex = endIndex - chunkOverlap
NextStart(endIndex, overlap) == endIndex - overlap

(***************************************************************************)
(* Chunker: splitIntoChunks(text, documentId, options).                    *)
(***************************************************************************)
ChunkInit ==
    /\ cpc = "start"
    /\ \/ /\ text \in Texts
          /\ chunkSize \in ChunkSizes
          /\ chunkOverlap \in ChunkOverlaps
          /\ minChunkSize \in MinChunkSizes
       \/ /\ text \in ScenarioTexts
          /\ chunkSize = 1000
          /\ chunkOverlap = 100
          /\ minChunkSize = 100
    /\ normalizedText = <<>>
    /\ chunks = <<>>
    /\ startIndex = 0
    /\ chunkIndex = 0
    /\ iterations = 0

\* Normalisation and the single-chunk return for a short text.
SplitStart ==
    /\ cpc = "start"
    /\ normalizedText' = Normalize(text)
    /\ IF Len(normalizedText') <= chunkSize
       THEN /\ chunks' = << Chunk(0, normalizedText', 0, Len(normalizedText')) >>
            /\ cpc' = "done"
       ELSE /\ chunks' = <<>>
            /\ cpc' = "loop"
    /\ UNCHANGED <<text, chunkSize, chunkOverlap, minChunkSize, startIndex,
                   chunkIndex, iterations>>
    /\ UNCHANGED <<researchVars, indexVars, otherVars>>

\* One iteration of while (startIndex < normalizedText.length) { ... }.
SplitIteration ==
    /\ cpc = "loop"
    /\ iterations < MaxIterations
    /\ IF startIndex < Len(normalizedText)
       THEN LET idealEnd == startIndex + chunkSize
                endIndex == IF idealEnd < Len(normalizedText)
                            THEN findBreakPoint(normalizedText, startIndex, idealEnd)
                            ELSE Len(normalizedText)
                chunkContent == Trim(Slice(normalizedText, startIndex, endIndex))
                emit == MeetsMinimum(chunkContent, minChunkSize)
            IN  /\ chunks' = IF emit
                             THEN PushChunk(chunks, Chunk(chunkIndex, chunkContent,
                                                          startIndex, endIndex))
                             ELSE chunks
                /\ chunkIndex' = IF emit THEN chunkIndex + 1 ELSE chunkIndex
                /\ startIndex' = NextStart(endIndex, chunkOverlap)
                /\ cpc' = IF startIndex' >= Len(normalizedText) - minChunkSize
                          THEN "done" ELSE "loop"
       ELSE /\ cpc' = "done"
            /\ UNCHANGED <<chunks, chunkIndex, startIndex>>
    /\ iterations' = iterations + 1
    /\ UNCHANGED <<text, chunkSize, chunkOverlap, minChunkSize, normalizedText>>
    /\ UNCHANGED <<researchVars, indexVars, otherVars>>

ChunkNext ==
    \/ SplitStart
    \/ SplitIteration

(***************************************************************************)
(* Vector index: bounds and inputs.                                        *)
(***************************************************************************)
\* Most chunks of one document.
MaxChunks == 2

\* Document ids (the upload route draws a fresh UUID per document).
Docs == {"d1", "d2"}
ChunkContents == {"x", "y"}

\* The content of chunk k of document d: the two texts alternate, the two
\* documents start with different texts.
ChunkContent(d, k) ==
    IF (k + (IF d = "d1" THEN 0 ELSE 1)) % 2 = 1 THEN "x" ELSE "y"

\* The chunk lists addDocument(d, chunks) is called with.
ChunkLists(d) ==
    { [k \in 1..n |-> [id |-> k - 1, documentId |-> d, content |-> ChunkContent(d, k)]] :
        n \in 0..MaxChunks }

\* The provider's embedding of a text (the text as cleaned and truncated by
\* generateEmbeddings).
Embedding(t) == IF t = "x" THEN <<1, 0>> ELSE <<0, 1>>

\* Inputs of searchSimilar: the provider's embedding of the query text, topK
\* and the documentIds filter (None when the argument is omitted).
QueryEmbeddings == { <<1, 0>>, <<0, 0>> }
TopKValues == {-1, 1, 3}
Filters == { None, Some({}), Some({"d1"}) }

(***************************************************************************)
(* Vector index: pure functions.                                           *)
(***************************************************************************)
\* All orders of the items 1..n.
Orders(n) ==
    { o \in [1..n -> 1..n] : \A a, b \in 1..n : a # b => o[a] # o[b] }

\* The provider's response to the batch texts, its items in the order o.
ProviderData(texts, o) ==
    [k \in 1..Len(texts) |->
        [index |-> o[k] - 1, embedding |-> Embedding(texts[o[k]])]]

\* data.data.sort((a, b) => a.index - b.index): a stable ascending sort.
SortByIndex(data) ==
    LET F[k \in 0..Len(data)] ==
            IF k = 0 THEN <<>>
            ELSE LET prev == F[k - 1]
                     n == Cardinality({ j \in 1..Len(prev) :
                                          prev[j].index <= data[k].index })
                 IN  SubSeq(prev, 1, n) \o <<data[k]>> \o SubSeq(prev, n + 1, Len(prev))
    IN  F[Len(data)]

\* generateEmbeddings returning the items in the provider's order.
generateEmbeddingsUnsorted(data) ==
    [k \in 1..Len(data) |-> data[k].embedding]

\* generateEmbeddings, from the provider's response on.
generateEmbeddings(data) ==
    LET sortedData == SortByIndex(data)
    IN  [k \in 1..Len(sortedData) |-> sortedData[k].embedding]

\* A cosine score dot / sqrt(norms), norms being the product of the two
\* squared norms; 0 when a norm is zero.
Dot(a, b) == LET F[k \in 0..Len(a)] == IF k = 0 THEN 0 ELSE F[k - 1] + a[k] * b[k]
             IN  F[Len(a)]
cosineSimilarity(a, b) ==
    IF Dot(a, a) = 0 \/ Dot(b, b) = 0
    THEN [dot |-> 0, norms |-> 1]
    ELSE [dot |-> Dot(a, b), norms |-> Dot(a, a) * Dot(b, b)]

\* p < q for two cosine scores.
ScoreLess(p, q) ==
    IF p.dot < 0 /\ q.dot >= 0 THEN TRUE
    ELSE IF p.dot >= 0 /\ q.dot < 0 THEN FALSE
    ELSE IF p.dot >= 0
         THEN p.dot * p.dot * q.norms < q.dot * q.dot * p.norms
         ELSE p.dot * p.dot * q.norms > q.dot * q.dot * p.norms

\* scored.sort((a, b) => b.score - a.score): a stable sort, highest first.
SortByScore(scored) ==
    LET F[k \in 0..Len(scored)] ==
            IF k = 0 THEN <<>>
            ELSE LET prev == F[k - 1]
                     n == Cardinality({ j \in 1..Len(prev) :
                              ~ScoreLess(prev[j].score, scored[k].score) })
                 IN  SubSeq(prev, 1, n) \o <<scored[k]>> \o SubSeq(prev, n + 1, Len(prev))
    IN  F[Len(scored)]

\* The candidate records of searchSimilar.
Candidates(store, documentIds) ==
    IF documentIds # None /\ Cardinality(documentIds[1]) > 0
    THEN SelectSeq(store, LAMBDA r : r.documentId \in documentIds[1])
    ELSE store

\* searchSimilar from the query embedding on: score, sort, take topK, attach
\* the document (name 'Unknown' when the document is not registered).
SearchResults(store, registered, queryEmbedding, topK, documentIds) ==
    LET candidates == Candidates(store, documentIds)
        scored == [k \in 1..Len(candidates) |->
                     [record |-> candidates[k],
                      score |-> cosineSimilarity(queryEmbedding,
                                                 candidates[k].embedding)]]
        topResults == Slice(SortByScore(scored), 0, topK)
    IN  [k \in 1..Len(topResults) |->
            [chunk |-> [id |-> topResults[k].record.id,
                        documentId |-> topResults[k].record.documentId,
                        content |-> topResults[k].record.content],
             document |-> IF topResults[k].record.documentId \in registered
                          THEN topResults[k].record.documentId ELSE "Unknown",
             score |-> topResults[k].score]]

\* addDocument pushing all chunks but the last.
RecordsButLast(chunkList, embeddings) ==
    [k \in 1..(Len(chunkList) - 1) |->
        [id |-> chunkList[k].id, documentId |-> chunkList[k].documentId,
         content |-> chunkList[k].content, embedding |-> embeddings[k]]]

\* The records addDocument pushes once the embeddings are there.
Records(chunkList, embeddings) ==
    [k \in 1..Len(chunkList) |->
        [id |-> chunkList[k].id, documentId |-> chunkList[k].documentId,
         content |-> chunkList[k].content, embedding |-> embeddings[k]]]

(***************************************************************************)
(* Vector index: addDocument, searchSimilar, deleteDocument, clearAll.     *)
(***************************************************************************)
\* A call of addDocument(d): its position, its chunks, the embeddings that
\* generateEmbeddings returned, whether the provider answered out of order,
\* and whether deleteDocument(d) has returned since the call began.
Idle == [pc |-> "idle", chunks |-> <<>>, embeddings |-> <<>>,
         reordered |-> FALSE, deleted |-> FALSE]

\* The call of searchSimilar: its position, its arguments, the embedding of
\* its query, the candidates it scored, its results, and the documents whose
\* deleteDocument had returned when it was called.
NoSearch == [pc |-> "idle", queryEmbedding |-> <<>>, topK |-> 0, documentIds |-> None,
             candidates |-> <<>>, results |-> <<>>, deletedBefore |-> {}]

IndexInit ==
    /\ vectorStore = <<>>
    /\ documentStore = {}
    /\ calls = [d \in Docs |-> Idle]
    /\ search = NoSearch

\* addDocument up to its await: the document is registered, the embeddings
\* of all chunks are requested.
AddDocumentStart(d) ==
    /\ calls[d].pc = "idle"
    /\ \E chunkList \in ChunkLists(d) :
        calls' = [calls EXCEPT ![d].pc = "awaiting", ![d].chunks = chunkList]
    /\ documentStore' = documentStore \cup {d}
    /\ UNCHANGED <<vectorStore, search>>
    /\ UNCHANGED <<researchVars, chunkVars, otherVars>>

\* generateEmbeddings resolves, the provider having answered with one item
\* per text in some order: the chunks are pushed with their embeddings.
AddDocumentResume(d) ==
    /\ calls[d].pc = "awaiting"
    /\ \E o \in Orders(Len(calls[d].chunks)) :
        LET chunkList == calls[d].chunks
            texts == [k \in 1..Len(chunkList) |-> chunkList[k].content]
            embeddings == generateEmbeddings(ProviderData(texts, o))
        IN  /\ vectorStore' = vectorStore \o Records(chunkList, embeddings)
            /\ calls' = [calls EXCEPT ![d].pc = "returned",
                                      ![d].embeddings = embeddings,
                                      ![d].reordered = \E k \in 1..Len(texts) : o[k] # k]
    /\ UNCHANGED <<documentStore, search>>
    /\ UNCHANGED <<researchVars, chunkVars, otherVars>>

\* generateEmbeddings rejects (no API key, provider error): addDocument
\* rejects at its await and runs no further statement.
AddDocumentFails(d) ==
    /\ calls[d].pc = "awaiting"
    /\ calls' = [calls EXCEPT ![d].pc = "rejected"]
    /\ UNCHANGED <<vectorStore, documentStore, search>>
    /\ UNCHANGED <<researchVars, chunkVars, otherVars>>

\* searchSimilar up to its await: [] at once on an empty store, else the
\* embedding of the query is requested.
SearchStart ==
    /\ search.pc = "idle"
    /\ \E topK \in TopKValues, documentIds \in Filters :
        search' = [search EXCEPT
                      !.pc = IF Len(vectorStore) = 0 THEN "returned" ELSE "awaiting",
                      !.topK = topK, !.documentIds = documentIds,
                      !.deletedBefore = { d \in Docs : calls[d].deleted }]
    /\ UNCHANGED <<vectorStore, documentStore, calls>>
    /\ UNCHANGED <<researchVars, chunkVars, otherVars>>

\* generateEmbedding resolves with the embedding q of the query: the store
\* as it is now is filtered, scored, sorted and cut.
SearchResume ==
    /\ search.pc = "awaiting"
    /\ \E q \in QueryEmbeddings :
        search' = [search EXCEPT
                    !.pc = "returned",
                    !.queryEmbedding = q,
                    !.candidates = Candidates(vectorStore, search.documentIds),
                    !.results = SearchResults(vectorStore, documentStore, q,
                                              search.topK, search.documentIds)]
    /\ UNCHANGED <<vectorStore, documentStore, calls>>
    /\ UNCHANGED <<researchVars, chunkVars, otherVars>>

\* generateEmbedding rejects: searchSimilar rejects.
SearchRejects ==
    /\ search.pc = "awaiting"
    /\ search' = [search EXCEPT !.pc = "rejected"]
    /\ UNCHANGED <<vectorStore, documentStore, calls>>
    /\ UNCHANGED <<researchVars, chunkVars, otherVars>>

deleteDocument(d) ==
    /\ vectorStore' = SelectSeq(vectorStore, LAMBDA r : r.documentId # d)
    /\ documentStore' = documentStore \ {d}
    /\ calls' = [calls EXCEPT ![d].deleted = (calls[d].pc # "idle")]
    /\ UNCHANGED search
    /\ UNCHANGED <<researchVars, chunkVars, otherVars>>

clearAll ==
    /\ vectorStore' = <<>>
    /\ documentStore' = {}
    /\ UNCHANGED <<calls, search>>
    /\ UNCHANGED <<researchVars, chunkVars, otherVars>>

IndexNext ==
    \/ \E d \in Docs : AddDocumentStart(d)
    \/ \E d \in Docs : AddDocumentResume(d)
    \/ \E d \in Docs : AddDocumentFails(d)
    \/ SearchStart
    \/ SearchResume
    \/ SearchRejects
    \/ \E d \in Docs : deleteDocument(d)
    \/ clearAll

(***************************************************************************)
(* File parsers: inputs.                                                   *)
(***************************************************************************)
\* Most parts between dots of a file name.
MaxNameParts == 2

\* The parts a file name is made of: a stem, the empty part and extensions.
NameParts ==
    { "report", "", "pdf", "PDF", "docx", "txt", "md", "markdown", "Markdown",
      "vtt", "srt", "SRT", "pptx", "exe" }

\* filename.split('.') of the file names.
FileNames == UNION { SeqsOfLen(NameParts, n) : n \in 1..MaxNameParts }

\* Most lines of a subtitle file.
MaxVttLines == 3

\* Lines of subtitle files: the header, a blank line, a timestamp line, a
\* cue identifier, and cue text lines: plain, with a speaker tag, padded
\* with spaces, with an entity, made of digits only.
VttLines ==
    { <<"W", "E", "B", "V", "T", "T">>,
      <<>>,
      <<"0", " ", "-", "-", ">", " ", "1">>,
      <<"1">>,
      <<"h", "i">>,
      <<"<", "v", ">", "y", "o">>,
      <<" ", "o", "k", "\r">>,
      <<"a", "&", "n", "b", "s", "p", ";", "b">>,
      <<"4", "2">> }

\* content.split('\n') of the subtitle files.
Buffers == UNION { SeqsOfLen(VttLines, n) : n \in 0..MaxVttLines }

\* The file names of the subtitle files.
SubtitleNames == { <<"talk", "vtt">>, <<"talk", "srt">> }

(***************************************************************************)
(* File parsers: pure functions.                                           *)
(***************************************************************************)
\* String.prototype.includes(pattern)
IncludesText(str, pattern) ==
    \E k \in 0..(Len(str) - Len(pattern)) : SubSeq(str, k + 1, k + Len(pattern)) = pattern

\* /^\d+$/.test(str)
AllDigits(str) == str # <<>> /\ \A k \in 1..Len(str) : IsDigit(str[k])

\* .replace(/<[^>]+>/g, ''): from a "<" to the next ">", at least one
\* character between them.
RECURSIVE RemoveTags(_)
RemoveTags(str) ==
    IF str = <<>> THEN <<>>
    ELSE IF Head(str) = "<"
              /\ \E j \in 3..Len(str) : str[j] = ">" /\ str[2] # ">"
         THEN LET close == CHOOSE j \in 3..Len(str) :
                              str[j] = ">" /\ \A i \in 3..(j - 1) : str[i] # ">"
              IN  RemoveTags(SubSeq(str, close + 1, Len(str)))
         ELSE <<Head(str)>> \o RemoveTags(Tail(str))

\* .replace(/&nbsp;/g, ' ')
RECURSIVE ReplaceNbsp(_)
ReplaceNbsp(str) ==
    IF str = <<>> THEN <<>>
    ELSE IF Len(str) >= 6 /\ SubSeq(str, 1, 6) = <<"&", "n", "b", "s", "p", ";">>
         THEN <<" ">> \o ReplaceNbsp(SubSeq(str, 7, Len(str)))
         ELSE <<Head(str)>> \o ReplaceNbsp(Tail(str))

\* Array.prototype.join(' ')
RECURSIVE JoinWithSpace(_)
JoinWithSpace(list) ==
    IF list = <<>> THEN <<>>
    ELSE IF Len(list) = 1 THEN list[1]
    ELSE list[1] \o <<" ">> \o JoinWithSpace(Tail(list))

\* The loop of parseVTT over the lines from k on.
RECURSIVE CollectCueText(_, _, _, _)
CollectCueText(lines, k, inCue, textLines) ==
    IF k > Len(lines) THEN textLines
    ELSE LET trimmed == Trim(lines[k])
             cleanText == Trim(ReplaceNbsp(RemoveTags(trimmed)))
         IN  IF trimmed = <<"W", "E", "B", "V", "T", "T">> \/ trimmed = <<>>
             THEN CollectCueText(lines, k + 1, FALSE, textLines)
             ELSE IF IncludesText(trimmed, <<"-", "-", ">">>)
             THEN CollectCueText(lines, k + 1, TRUE, textLines)
             ELSE IF AllDigits(trimmed)
             THEN CollectCueText(lines, k + 1, inCue, textLines)
             ELSE IF inCue /\ cleanText # <<>>
             THEN CollectCueText(lines, k + 1, inCue, Append(textLines, cleanText))
             ELSE CollectCueText(lines, k + 1, inCue, textLines)

\* parseVTT(buffer).text
parseVTT(lines) == JoinWithSpace(CollectCueText(lines, 1, FALSE, <<>>))

\* String.prototype.toLowerCase on the name parts.
ToLowerCase(part) ==
    CASE part = "PDF" -> "pdf"
      [] part = "Markdown" -> "markdown"
      [] part = "SRT" -> "srt"
      [] OTHER -> part

\* filename.split('.').pop()?.toLowerCase()
Extension(name) == ToLowerCase(name[Len(name)])

\* The parser parseFile hands the buffer to; None in the default case.
Dispatch(extension) ==
    CASE extension = "pdf" -> Some("parsePDF")
      [] extension = "docx" -> Some("parseDOCX")
      [] extension \in {"txt", "md", "markdown"} -> Some("parseTXT")
      [] extension \in {"vtt", "srt"} -> Some("parseVTT")
      [] extension = "pptx" -> Some("parsePPTX")
      [] OTHER -> None

getSupportedExtensions == <<"pdf", "docx", "txt", "md", "vtt", "srt", "pptx">>

\* Array.prototype.includes
Includes(list, v) == \E k \in 1..Len(list) : list[k] = v

isSupported(name) == Includes(getSupportedExtensions, Extension(name))

(***************************************************************************)
(* File parsers: isSupported and parseFile called on one file.             *)
(***************************************************************************)
ParseInit ==
    /\ \/ filename \in FileNames /\ buffer = <<>>
       \/ filename \in SubtitleNames /\ buffer \in Buffers
    /\ verdict = None
    /\ parsed = None

IsSupportedCall ==
    /\ verdict = None
    /\ verdict' = Some(isSupported(filename))
    /\ UNCHANGED <<filename, buffer, parsed>>
    /\ UNCHANGED <<researchVars, chunkVars, indexVars, clientVars, chatVars>>

\* parseFile: the switch on the extension; the default case throws
\* 'Unsupported file type'.
ParseFileCall ==
    /\ parsed = None
    /\ parsed' = LET extension == Extension(filename)
                 IN  IF Dispatch(extension) = None
                     THEN Some([kind |-> "rejected", extension |-> extension])
                     ELSE Some([kind |-> "dispatched", extension |-> extension,
                                parser |-> Dispatch(extension)[1],
                                text |-> IF Dispatch(extension)[1] = "parseVTT"
                                         THEN Some(parseVTT(buffer)) ELSE None])
    /\ UNCHANGED <<filename, buffer, verdict>>
    /\ UNCHANGED <<researchVars, chunkVars, indexVars, clientVars, chatVars>>

ParseNext ==
    \/ IsSupportedCall
    \/ ParseFileCall

(***************************************************************************)
(* Knowledge base client: inputs.                                          *)
(***************************************************************************)
\* Most files dropped or selected at once.
MaxBatch == 2

\* The File objects the user drops, each with the extension of its name.
Files == {"f1", "f2", "f3", "f4"}
ExtensionOf(f) ==
    CASE f = "f1" -> "pdf" [] f = "f2" -> "txt" [] f = "f3" -> "md" [] OTHER -> "exe"

SUPPORTED_EXTENSIONS == <<"pdf", "docx", "txt", "md", "vtt", "pptx">>

\* The sequences of different files of one drop.
Batches ==
    { b \in UNION { SeqsOfLen(Files, n) : n \in 1..MaxBatch } :
        \A i, j \in 1..Len(b) : i # j => b[i] # b[j] }

\* result.data.documentId of the upload of f: the server draws a fresh id.
DocumentIdOf(f) == "doc-" \o f

\* The messages a failed upload ends with: result.error of the route, the
\* message of a rejected fetch.
ErrorMessages == { "File too large. Maximum size is 10MB", "Failed to fetch" }

(***************************************************************************)
(* Knowledge base client: pure functions.                                  *)
(***************************************************************************)
\* { ...entry, ...patch }
Spread(entry, patch) ==
    [field \in DOMAIN entry |->
        IF field \in DOMAIN patch THEN patch[field] ELSE entry[field]]

\* An updater that changes every entry of the list.
UpdateAllEntries(list, file, patch) ==
    [k \in 1..Len(list) |-> Spread(list[k], patch)]

\* prev.map(f => f.file === file ? { ...f, ...patch } : f)
UpdateEntry(list, file, patch) ==
    [k \in 1..Len(list) |->
        IF list[k].file = file THEN Spread(list[k], patch) ELSE list[k]]

\* newFiles.filter(file => extension && SUPPORTED_EXTENSIONS.includes(extension))
ValidFiles(newFiles) ==
    SelectSeq(newFiles, LAMBDA f : ExtensionOf(f) # ""
                                   /\ Includes(SUPPORTED_EXTENSIONS, ExtensionOf(f)))

(***************************************************************************)
(* Knowledge base client: addFiles, uploadSingleFile, the delete button of *)
(* KnowledgeBase and a query of the index.                                 *)
(***************************************************************************)
ClientInit ==
    /\ files = <<>>
    /\ uploads = [f \in Files |-> [pc |-> "idle", outcome |-> None]]
    /\ documents = <<>>
    /\ indexed = {}
    /\ queried = None

\* addFiles: the supported files are appended as pending and
\* uploadSingleFile runs for each up to its fetch, which sets it uploading.
addFiles(newFiles) ==
    /\ \A k \in 1..Len(newFiles) : uploads[newFiles[k]].pc = "idle"
    /\ LET validFiles == ValidFiles(newFiles)
           valid == { validFiles[k] : k \in 1..Len(validFiles) }
           dropped == { newFiles[k] : k \in 1..Len(newFiles) }
       IN  /\ files' = files \o [k \in 1..Len(validFiles) |->
                                   [file |-> validFiles[k], status |-> "uploading",
                                    progress |-> 10, documentId |-> None,
                                    error |-> None]]
           /\ uploads' = [f \in Files |->
                            IF f \in valid THEN [uploads[f] EXCEPT !.pc = "fetching"]
                            ELSE IF f \in dropped THEN [uploads[f] EXCEPT !.pc = "filtered"]
                            ELSE uploads[f]]
    /\ UNCHANGED <<documents, indexed, queried>>
    /\ UNCHANGED <<researchVars, chunkVars, indexVars, parseVars, chatVars>>

\* The route indexed the document and answered ok: the entry becomes
\* success and the document is added to the store.
UploadSucceeds(f) ==
    /\ uploads[f].pc = "fetching"
    /\ files' = UpdateEntry(files, f, [status |-> "success", progress |-> 100,
                                       documentId |-> Some(DocumentIdOf(f))])
    /\ documents' = Append(documents, DocumentIdOf(f))
    /\ indexed' = indexed \cup {DocumentIdOf(f)}
    /\ uploads' = [uploads EXCEPT ![f] = [pc |-> "done", outcome |-> Some("ok")]]
    /\ UNCHANGED queried
    /\ UNCHANGED <<researchVars, chunkVars, indexVars, parseVars, chatVars>>

\* The fetch rejected or the route answered with an error: the catch block
\* sets the entry to error with the message.
UploadFails(f) ==
    /\ uploads[f].pc = "fetching"
    /\ \E message \in ErrorMessages :
        /\ files' = UpdateEntry(files, f, [status |-> "error", progress |-> 0,
                                           error |-> Some(message)])
        /\ uploads' = [uploads EXCEPT ![f] = [pc |-> "done", outcome |-> Some(message)]]
    /\ UNCHANGED <<documents, indexed, queried>>
    /\ UNCHANGED <<researchVars, chunkVars, indexVars, parseVars, chatVars>>

\* The delete button of KnowledgeBase: useRAGStore().deleteDocument(id).
KnowledgeBaseDelete(id) ==
    /\ Includes(documents, id)
    /\ documents' = SelectSeq(documents, LAMBDA d : d # id)
    /\ UNCHANGED <<files, uploads, indexed, queried>>
    /\ UNCHANGED <<researchVars, chunkVars, indexVars, parseVars, chatVars>>

\* POST /api/rag/query: searchSimilar over the records of the index.
RagQuery ==
    /\ queried' = Some(indexed)
    /\ UNCHANGED <<files, uploads, documents, indexed>>
    /\ UNCHANGED <<researchVars, chunkVars, indexVars, parseVars, chatVars>>

ClientNext ==
    \/ \E newFiles \in Batches : addFiles(newFiles)
    \/ \E f \in Files : UploadSucceeds(f)
    \/ \E f \in Files : UploadFails(f)
    \/ \E f \in Files : KnowledgeBaseDelete(DocumentIdOf(f))
    \/ RagQuery

(***************************************************************************)
(* Chat and compare routes: inputs.                                        *)
(***************************************************************************)
\* Most messages of a conversation.
MaxMessages == 2

ConversationMessages ==
    { [role |-> "user", content |-> "hi"], [role |-> "assistant", content |-> "yo"] }
Conversations == UNION { SeqsOfLen(ConversationMessages, n) : n \in 0..MaxMessages }

\* systemPrompt and ragContext of the body: absent, empty or a text.
SystemPrompts == { None, Some(""), Some("Be brief.") }
RagContexts == { None, Some(""), Some("[Source 1: a.txt]") }

\* models of a compare request.
ModelLists == { <<>>, <<"m1">>, <<"m1", "m2">> }

(***************************************************************************)
(* Chat and compare routes: pure functions.                                *)
(***************************************************************************)
\* The truthiness of an optional string.
Truthy(optional) == optional # None /\ optional[1] # ""

\* buildMessages(messages, systemPrompt, ragContext)
buildMessages(messages, systemPrompt, ragContext) ==
    LET prompt == IF Truthy(systemPrompt) THEN systemPrompt[1]
                  ELSE "You are a helpful AI assistant."
        systemContent ==
            IF Truthy(ragContext)
            THEN prompt \o "\n\nRelevant context from the knowledge base:\n"
                        \o ragContext[1]
            ELSE prompt
    IN  (IF Truthy(systemPrompt) \/ Truthy(ragContext)
         THEN << [role |-> "system", content |-> systemContent] >>
         ELSE <<>>) \o messages

(***************************************************************************)
(* Chat and compare routes: POST /api/chat and POST /api/compare.          *)
(***************************************************************************)
ChatInit ==
    /\ chatRequest \in
          [route : {"chat"}, models : {<<>>, <<"m1">>}, messages : Conversations,
           systemPrompt : SystemPrompts, ragContext : RagContexts]
          \cup
          [route : {"compare"}, models : ModelLists, messages : Conversations,
           systemPrompt : SystemPrompts, ragContext : RagContexts]
    /\ chatSent = <<>>
    /\ chatResponse = None

\* POST /api/chat up to the call of the provider: client.chat or
\* client.chatStream is given the messages of the body.
ChatPost ==
    /\ chatRequest.route = "chat"
    /\ chatResponse = None /\ chatSent = <<>>
    /\ IF chatRequest.models = <<>> \/ Len(chatRequest.messages) = 0
       THEN chatResponse' = Some(400) /\ chatSent' = <<>>
       ELSE LET formattedMessages == buildMessages(chatRequest.messages,
                                                   chatRequest.systemPrompt,
                                                   chatRequest.ragContext)
            IN  /\ chatSent' = << chatRequest.messages >>
                /\ chatResponse' = None
    /\ UNCHANGED chatRequest
    /\ UNCHANGED <<researchVars, chunkVars, indexVars, parseVars, clientVars>>

\* POST /api/compare up to the calls of the provider: client.chat is given
\* the messages of the body once per model.
ComparePost ==
    /\ chatRequest.route = "compare"
    /\ chatResponse = None /\ chatSent = <<>>
    /\ IF chatRequest.models = <<>> \/ Len(chatRequest.messages) = 0
       THEN chatResponse' = Some(400) /\ chatSent' = <<>>
       ELSE LET formattedMessages == buildMessages(chatRequest.messages,
                                                   chatRequest.systemPrompt,
                                                   chatRequest.ragContext)
            IN  /\ chatSent' = [k \in 1..Len(chatRequest.models) |->
                                  chatRequest.messages]
                /\ chatResponse' = None
    /\ UNCHANGED chatRequest
    /\ UNCHANGED <<researchVars, chunkVars, indexVars, parseVars, clientVars>>

ChatNext ==
    \/ ChatPost
    \/ ComparePost

(***************************************************************************)
(* Specifications: one per engine; the other engines' variables rest.      *)
(***************************************************************************)
ResearchRest ==
    /\ pc = "done"
    /\ query = [question |-> Question, subQuestions |-> <<>>, searchResults |-> <<>>,
                status |-> "pending", synthesis |-> None, citations |-> None]
    /\ onProgress = FALSE
    /\ maxSubQuestions = 5
    /\ content = None
    /\ subQuestions = <<>>
    /\ searchResults = <<>>
    /\ progress = <<>>
    /\ caught = None
    /\ settled = NoCaller
    /\ response = Some([status |-> 200, data |-> None, error |-> None])

ChunkRest ==
    /\ cpc = "done"
    /\ text = <<>>
    /\ chunkSize = 2000
    /\ chunkOverlap = 200
    /\ minChunkSize = 100
    /\ normalizedText = <<>>
    /\ chunks = <<>>
    /\ startIndex = 0
    /\ chunkIndex = 0
    /\ iterations = 0

ParseRest ==
    /\ filename = <<"">>
    /\ buffer = <<>>
    /\ verdict = Some(FALSE)
    /\ parsed = Some([kind |-> "rejected", extension |-> ""])

ClientRest ==
    /\ files = <<>>
    /\ uploads = [f \in Files |-> [pc |-> "filtered", outcome |-> None]]
    /\ documents = <<>>
    /\ indexed = {}
    /\ queried = None

ChatRest ==
    /\ chatRequest = [route |-> "chat", models |-> <<>>, messages |-> <<>>,
                      systemPrompt |-> None, ragContext |-> None]
    /\ chatSent = <<>>
    /\ chatResponse = Some(400)

OtherRest == ParseRest /\ ClientRest /\ ChatRest

InitResearch == ResearchInit /\ ChunkRest /\ IndexInit /\ OtherRest
InitChunk == ChunkInit /\ ResearchRest /\ IndexInit /\ OtherRest
InitIndex == IndexInit /\ ResearchRest /\ ChunkRest /\ OtherRest
InitParse == ParseInit /\ ResearchRest /\ ChunkRest /\ IndexInit /\ ClientRest /\ ChatRest
InitClient == ClientInit /\ ResearchRest /\ ChunkRest /\ IndexInit /\ ParseRest /\ ChatRest
InitChat == ChatInit /\ ResearchRest /\ ChunkRest /\ IndexInit /\ ParseRest /\ ClientRest

SpecResearch == InitResearch /\ [][ResearchNext]_vars
SpecChunk == InitChunk /\ [][ChunkNext]_vars
SpecIndex == InitIndex /\ [][IndexNext]_vars
SpecParse == InitParse /\ [][ParseNext]_vars
SpecClient == InitClient /\ [][ClientNext]_vars
SpecChat == InitChat /\ [][ChatNext]_vars

\* Every fetch of the uploader settles: the browser resolves or rejects it.
ClientFairness == \A f \in Files : WF_vars(UploadSucceeds(f) \/ UploadFails(f))
SpecClientFair == InitClient /\ [][ClientNext]_vars /\ ClientFairness

(***************************************************************************)
(* Claims about the chunker (SpecChunk).                                   *)
(***************************************************************************)
\* C1: splitIntoChunks terminates for every text and every setting of
\* chunkSize, overlap and minChunkSize: every loop iteration that does not
\* leave the loop moves the scan position startIndex forward.
C1_ScanMakesProgress ==
    [][(SplitIteration /\ cpc' = "loop") => startIndex' > startIndex]_vars

(***************************************************************************)
(* Claims about the vector index (SpecIndex).                              *)
(***************************************************************************)
ChunksOf(d) == SelectSeq(vectorStore, LAMBDA r : r.documentId = d)

\* C2: when embedding generation fails during addDocument, the index is as
\* before the call: the document is not registered and none of its chunks is
\* in the vector store, so no document stays registered with zero chunks
\* because of a failed insert.
C2_FailedInsertLeavesNothing ==
    \A d \in Docs :
        calls[d].pc = "rejected" => (d \notin documentStore /\ ChunksOf(d) = <<>>)

(***************************************************************************)
(* Claims about the research agent (SpecResearch).                         *)
(***************************************************************************)
StatusEdges ==
    { <<"pending", "searching">>, <<"searching", "synthesizing">>,
      <<"synthesizing", "complete">>, <<"searching", "error">>,
      <<"synthesizing", "error">> }

\* C3: the query status changes only along pending -> searching ->
\* synthesizing -> complete or from searching/synthesizing to error; complete
\* and error are never left.
C3_StatusStateMachine ==
    [][query'.status = query.status \/ <<query.status, query'.status>> \in StatusEdges]_vars

\* C4: a query whose status is error has no synthesis and no citations.
C4_NoSynthesisOnError ==
    query.status = "error" => (query.synthesis = None /\ query.citations = None)

DecompositionSettled == content # None \/ caught = Some("decomposition failed")

IsNumberedLine(line) ==
    LET d == LeadingDigits(line)
    IN  /\ d >= 1
        /\ Len(line) > d + 1
        /\ line[d + 1] = "."
        /\ Trim(SubSeq(line, d + 2, Len(line))) # <<>>

\* C6: a decomposition response without any parseable numbered line gives
\* the sub-question list [originalQuestion].
C6_FallbackWithoutNumberedLine ==
    (content # None /\ \A k \in 1..Len(content[1]) : ~IsNumberedLine(content[1][k]))
        => query.subQuestions = <<Question>>

\* C7: a failing search call records a result with an empty answer and no
\* sources for its sub-question, and the run goes on instead of aborting.
C7_FailedSearchIsRecorded ==
    [][SearchFails =>
          /\ pc' \notin {"catch", "notifyError", "done"}
          /\ query'.searchResults =
                Append(query.searchResults,
                       [question |-> subQuestions[Len(searchResults) + 1],
                        answer |-> <<>>, sources |-> <<>>])]_vars

\* C8: after a failed run the query at status error still holds the
\* sub-questions and results gathered, and the caller obtains that query: the
\* settled promise carries it, and so does the response of POST.
C8_FailedQueryReachesCaller ==
    (pc = "done" /\ settled.kind = "rejected") =>
        /\ query.status = "error"
        /\ query.subQuestions = subQuestions
        /\ query.searchResults = searchResults
        /\ settled.value = Some(query)
        /\ (response # None /\ ~onProgress) => response[1].data = Some(query)

\* The searchResults updates the callback received, in order.
ResultUpdates == SelectSeq(progress, LAMBDA u : u.searchResults # None)

\* C9: results are appended in sub-question order: searchResults[i] answers
\* subQuestions[i], there are never more results than sub-questions, at most
\* one search is pending (the one after the last result), and the k-th
\* searchResults update holds exactly the first k results.
C9_ResultsInSubQuestionOrder ==
    /\ Len(query.searchResults) <= Len(query.subQuestions)
    /\ \A i \in 1..Len(query.searchResults) :
          query.searchResults[i].question = query.subQuestions[i]
    /\ \A k \in 1..Len(ResultUpdates) :
          /\ Len(ResultUpdates[k].searchResults[1]) = k
          /\ k <= Len(query.searchResults)
          /\ ResultUpdates[k].searchResults[1] = SubSeq(query.searchResults, 1, k)
    /\ onProgress /\ pc \in {"loop", "search", "setSynthesizing"}
          => Len(ResultUpdates) = Len(query.searchResults)

\* C9 witness: two different sub-questions were searched and both updates
\* were delivered.
C9_Witness ==
    /\ Len(query.searchResults) = 2
    /\ query.subQuestions[1] # query.subQuestions[2]
    /\ Len(ResultUpdates) = 2
    /\ pc = "loop"

\* The sources of all results, in order.
CitedSources == Concat([k \in 1..Len(query.searchResults) |->
                            query.searchResults[k].sources])
FirstPosition(s, url) ==
    CHOOSE k \in 1..Len(s) : s[k].url = url /\ \A j \in 1..(k - 1) : s[j].url # url

\* C10: the citation list of a completed run holds every URL cited in a
\* sub-question result exactly once, in the order of first occurrence across
\* the results taken in order.
C10_CitationsDeduplicated ==
    query.status = "complete" =>
        LET cs == query.citations[1]
        IN  /\ \A i, j \in 1..Len(cs) : i # j => cs[i].url # cs[j].url
            /\ { cs[i].url : i \in 1..Len(cs) }
                 = { CitedSources[k].url : k \in 1..Len(CitedSources) }
            /\ \A i, j \in 1..Len(cs) :
                  i < j => FirstPosition(CitedSources, cs[i].url)
                             < FirstPosition(CitedSources, cs[j].url)
            /\ \A i \in 1..Len(cs) :
                  cs[i] = CitedSources[FirstPosition(CitedSources, cs[i].url)]

\* C10 witness: a completed run whose two results cite a common URL and whose
\* citation list has two entries.
C10_Witness ==
    /\ query.status = "complete"
    /\ Len(query.searchResults) = 2
    /\ \E a \in 1..Len(query.searchResults[1].sources) :
       \E b \in 1..Len(query.searchResults[2].sources) :
          query.searchResults[1].sources[a].url = query.searchResults[2].sources[b].url
    /\ Len(query.citations[1]) = 2

ProviderErrors ==
    { Some("decomposition failed"), Some("search failed"), Some("synthesis failed") }

\* C11: the outcome of research does not depend on progress observation: a
\* run with a progress callback ends as the run without one does on the same
\* provider responses, that is, it fails only when a provider call failed,
\* with that call's error, and it completes otherwise.
C11_OutcomeIndependentOfProgress ==
    pc = "done" =>
        /\ settled.kind = "rejected" => settled.error \in ProviderErrors
        /\ query.status = "error" => caught \in ProviderErrors

\* C12: the number of sub-questions a run searches is at least 1 and at most
\* maxSubQuestions, for every decomposition response and every
\* maxSubQuestions value the route passes on.
C12_SubQuestionCountWithinMax ==
    content # None =>
        (1 <= Len(query.subQuestions) /\ Len(query.subQuestions) <= maxSubQuestions)

\* The records a complete insert of d leaves: one per chunk submitted, in
\* chunk order, each with the embedding of its own content.
ExpectedRecords(d) ==
    [k \in 1..Len(calls[d].chunks) |->
        [id |-> calls[d].chunks[k].id, documentId |-> d,
         content |-> calls[d].chunks[k].content,
         embedding |-> Embedding(calls[d].chunks[k].content)]]

SeenBySearch(d) == SelectSeq(search.candidates, LAMBDA r : r.documentId = d)

\* C13: with inserts of different documents and searches running at the same
\* time, the store and every search hold of each document either all of its
\* chunks or none; an insert that finishes appends exactly its own chunks, in
\* chunk order, each with its own embedding, and touches no other document.
C13_InsertIsAllOrNothing ==
    [][\A d \in Docs :
         /\ ChunksOf(d)' \in { <<>>, ExpectedRecords(d)' }
         /\ SeenBySearch(d)' \in { <<>>, ExpectedRecords(d)' }
         /\ (calls[d].pc = "awaiting" /\ calls'[d].pc = "returned") =>
               /\ vectorStore' = vectorStore \o ExpectedRecords(d)
               /\ \A e \in Docs \ {d} : ChunksOf(e)' = ChunksOf(e)]_vars

\* A search returned the whole of d1 and nothing of d2, whose insert of two
\* chunks is still waiting for its embeddings.
C13_Witness ==
    /\ search.pc = "returned"
    /\ calls["d1"].pc = "returned" /\ calls["d2"].pc = "awaiting"
    /\ Len(calls["d1"].chunks) = 2 /\ Len(calls["d2"].chunks) = 2
    /\ SeenBySearch("d1") = ExpectedRecords("d1")
    /\ SeenBySearch("d2") = <<>>
    /\ "d2" \in documentStore


\* C14: once deleteDocument(d) has returned, no search called later returns a
\* chunk of d; the delete lowers the record count by the number of records of
\* d, leaves the records of every other document as they were, and changes
\* nothing when d has no records.
C14_DeleteRemovesDocument ==
    [][/\ \A d \in Docs : deleteDocument(d) =>
            /\ Len(vectorStore') = Len(vectorStore) - Len(ChunksOf(d))
            /\ \A e \in Docs \ {d} : ChunksOf(e)' = ChunksOf(e)
            /\ ChunksOf(d) = <<>> => vectorStore' = vectorStore
       /\ search'.pc = "returned" =>
            \A k \in 1..Len(search'.results) :
                search'.results[k].chunk.documentId \notin search'.deletedBefore]_vars


\* The position among the candidates of the record behind result k, and the
\* score of the candidate at position j.
ResultPosition(k) ==
    CHOOSE j \in 1..Len(search.candidates) :
        /\ search.candidates[j].documentId = search.results[k].chunk.documentId
        /\ search.candidates[j].id = search.results[k].chunk.id
CandidateScore(j) ==
    cosineSimilarity(search.queryEmbedding, search.candidates[j].embedding)

\* C15: searchSimilar(query, topK) returns the first topK candidates in the
\* order of descending cosine score, equal scores in insertion order: at most
\* topK entries, scores non-increasing, tied records in the order they were
\* inserted, and no omitted candidate scoring higher than a returned one.
C15_TopKByDescendingScore ==
    search.pc = "returned" =>
        LET n == Len(search.results)
            returned == { ResultPosition(k) : k \in 1..n }
        IN  /\ n <= search.topK
            /\ \A k \in 1..n :
                 /\ \E j \in 1..Len(search.candidates) :
                      /\ search.candidates[j].documentId = search.results[k].chunk.documentId
                      /\ search.candidates[j].id = search.results[k].chunk.id
                 /\ search.results[k].score = CandidateScore(ResultPosition(k))
            /\ \A k, l \in 1..n : k < l =>
                 /\ ~ScoreLess(search.results[k].score, search.results[l].score)
                 /\ ~ScoreLess(search.results[l].score, search.results[k].score)
                      => ResultPosition(k) < ResultPosition(l)
            /\ \A j \in (1..Len(search.candidates)) \ returned : \A k \in 1..n :
                 /\ ~ScoreLess(search.results[k].score, CandidateScore(j))
                 /\ ~ScoreLess(CandidateScore(j), search.results[k].score)
                      => ResultPosition(k) < j


\* C16: for N input texts generateEmbeddings returns exactly N vectors, and
\* vector i is the provider's embedding of input i, whatever the order of the
\* items in the provider's response.
C16_EmbeddingsAlignedWithInputs ==
    \A d \in Docs : calls[d].pc = "returned" =>
        /\ Len(calls[d].embeddings) = Len(calls[d].chunks)
        /\ \A i \in 1..Len(calls[d].chunks) :
             calls[d].embeddings[i] = Embedding(calls[d].chunks[i].content)

\* The provider answered a batch of two different texts out of order.
C16_Witness ==
    /\ calls["d1"].pc = "returned"
    /\ calls["d1"].reordered
    /\ Len(calls["d1"].chunks) = 2
    /\ calls["d1"].chunks[1].content # calls["d1"].chunks[2].content


(***************************************************************************)
(* Further claims about the chunker (SpecChunk).                           *)
(***************************************************************************)
\* C17: for any text and any options, the startIndex values of the chunks
\* splitIntoChunks returns are strictly increasing along the sequence.
C17_StartIndexStrictlyIncreasing ==
    cpc = "done" =>
        \A k \in 1..(Len(chunks) - 1) : chunks[k].startIndex < chunks[k + 1].startIndex

\* A call returned two chunks that overlap.
C17_Witness ==
    /\ cpc = "done"
    /\ Len(chunks) >= 2
    /\ chunkOverlap > 0
    /\ chunks[2].startIndex < chunks[1].endIndex

\* The character indexes of the normalized text inside no returned chunk.
Uncovered ==
    { i \in 0..(Len(normalizedText) - 1) :
        \A k \in 1..Len(chunks) : ~(chunks[k].startIndex <= i /\ i < chunks[k].endIndex) }

\* C18: the ranges [startIndex, endIndex) of the returned chunks cover the
\* normalized text without gaps: the only indexes inside no chunk are at the
\* very end of the text.
C18_ChunksCoverText ==
    cpc = "done" =>
        \A i \in Uncovered : \A j \in i..(Len(normalizedText) - 1) : j \in Uncovered

\* C19: every returned chunk, for every input text, the empty and the
\* whitespace-only ones included, has startIndex < endIndex <= length of the
\* normalized text.
C19_ChunkRangeWellFormed ==
    cpc = "done" =>
        \A k \in 1..Len(chunks) :
            /\ chunks[k].startIndex < chunks[k].endIndex
            /\ chunks[k].endIndex <= Len(normalizedText)

\* C20, as stated: for every input text and options, every returned chunk has
\* a content of at least minChunkSize characters.
C20_EveryChunkMeetsMinimum ==
    cpc = "done" =>
        \A k \in 1..Len(chunks) : Len(chunks[k].content) >= minChunkSize

\* C20, amended: for every text longer than chunkSize, every returned chunk
\* has a content of at least minChunkSize characters, shorter segments being
\* dropped; a text of at most chunkSize characters is returned as one chunk
\* whatever its length.
C20_LoopChunksMeetMinimum ==
    cpc = "done" =>
        IF Len(normalizedText) > chunkSize
        THEN \A k \in 1..Len(chunks) : Len(chunks[k].content) >= minChunkSize
        ELSE Len(chunks) = 1 /\ chunks[1].content = normalizedText

\* A call on a long text returned chunks after dropping a segment that was
\* too short: a chunk was returned behind a range no chunk covers.
C20_Witness ==
    /\ cpc = "done"
    /\ Len(normalizedText) > chunkSize
    /\ minChunkSize > 0
    /\ \E k \in 1..Len(chunks) : \E i \in Uncovered : i < chunks[k].startIndex


\* C21: every normalized text of 3000 characters split with chunkSize 1000,
\* overlap 100 and minChunkSize 100 yields exactly 4 chunks, each with a
\* content of between minChunkSize and chunkSize + overlap characters, with
\* non-decreasing startIndex.
C21_ScenarioYieldsFourChunks ==
    (/\ cpc = "done"
     /\ Len(normalizedText) = 3000
     /\ chunkSize = 1000 /\ chunkOverlap = 100 /\ minChunkSize = 100) =>
        /\ Len(chunks) = 4
        /\ \A k \in 1..Len(chunks) :
             /\ minChunkSize <= Len(chunks[k].content)
             /\ Len(chunks[k].content) <= chunkSize + chunkOverlap
        /\ \A k \in 1..(Len(chunks) - 1) :
             chunks[k].startIndex <= chunks[k + 1].startIndex


(***************************************************************************)
(* Claims about the file parsers (SpecParse).                              *)
(***************************************************************************)
\* The supported set of the specification.
SupportedFormats == {"pdf", "docx", "txt", "md", "vtt", "srt", "pptx"}

\* C22: parseFile rejects a file name as unsupported exactly when its
\* lower-cased extension is outside pdf, docx, txt, md, vtt, srt, pptx, and
\* isSupported gives the same verdict for every file name.
C22_SameSupportedSetEverywhere ==
    /\ parsed # None =>
         (parsed[1].kind = "rejected" <=> parsed[1].extension \notin SupportedFormats)
    /\ verdict # None =>
         (verdict[1] <=> Extension(filename) \in SupportedFormats)
    /\ (parsed # None /\ verdict # None) =>
         (parsed[1].kind = "rejected" <=> ~verdict[1])


(***************************************************************************)
(* Claims about the knowledge base client (SpecClient, SpecClientFair).    *)
(***************************************************************************)
Listed(f) == \E k \in 1..Len(files) : files[k].file = f
EntryOf(f) == files[CHOOSE k \in 1..Len(files) : files[k].file = f]

\* Each file's entry says how its own upload went, and nothing else.
OwnOutcome(f) ==
    /\ Listed(f) <=> uploads[f].pc \in {"fetching", "done"}
    /\ Cardinality({ k \in 1..Len(files) : files[k].file = f }) <= 1
    /\ uploads[f].pc = "fetching" =>
         EntryOf(f).status = "uploading" /\ EntryOf(f).error = None
    /\ (uploads[f].pc = "done" /\ uploads[f].outcome = Some("ok")) =>
         /\ EntryOf(f).status = "success"
         /\ EntryOf(f).documentId = Some(DocumentIdOf(f))
         /\ EntryOf(f).error = None
    /\ (uploads[f].pc = "done" /\ uploads[f].outcome # Some("ok")) =>
         /\ EntryOf(f).status = "error"
         /\ EntryOf(f).error = uploads[f].outcome

\* A document enters the store exactly when its file turns to success.
AddedOnSuccess(f) ==
    (Includes(documents', DocumentIdOf(f)) /\ ~Includes(documents, DocumentIdOf(f)))
    <=> (/\ Listed(f) /\ EntryOf(f).status # "success"
         /\ EntryOf(f)'.status = "success")

C24_ContextReachesProvider ==
    (Truthy(chatRequest.ragContext) \/ Truthy(chatRequest.systemPrompt)) =>
        \A k \in 1..Len(chatSent) :
            /\ chatSent[k] = buildMessages(chatRequest.messages,
                                           chatRequest.systemPrompt,
                                           chatRequest.ragContext)
            /\ chatSent[k][1].role = "system"
            /\ Tail(chatSent[k]) = chatRequest.messages


(***************************************************************************)
(* Claims about findBreakPoint (SpecChunk).                                *)
(***************************************************************************)
\* The break candidates in priority order: paragraph break, sentence ends,
\* line break, space.
BreakCandidates ==
    << <<"\n", "\n">>, <<".", " ">>, <<"!", " ">>, <<"?", " ">>,
       <<".", "\n">>, <<"!", "\n">>, <<"?", "\n">>, <<"\n">>, <<" ">> >>

\* Where candidate i occurs last in the window w (0-based), -1 when nowhere.
LastOccurrence(w, i) ==
    LET n == Len(BreakCandidates[i])
        at == { k \in 0..(Len(w) - n) : \A j \in 1..n : w[k + j] = BreakCandidates[i][j] }
    IN  IF at = {} THEN -1 ELSE CHOOSE k \in at : \A j \in at : j <= k

\* The end findBreakPoint is to return for the scan position start and the
\* ideal end idealEnd.
ExpectedBreak(t, start, idealEnd) ==
    LET windowStart == Max(start, idealEnd - 400)
        w == Slice(t, windowStart, idealEnd)
        accepted == { i \in 1..Len(BreakCandidates) :
                        LastOccurrence(w, i) # -1 /\ 2 * LastOccurrence(w, i) > Len(w) }
        first == CHOOSE i \in accepted : \A j \in accepted : i <= j
    IN  IF accepted = {} THEN idealEnd
        ELSE windowStart + LastOccurrence(w, first) + Len(BreakCandidates[first])

IsBlank(line) == Trim(line) = <<>>
IsTimestamp(line) == IncludesText(line, <<"-", "-", ">">>)
CueTextPositions(lines) ==
    { k \in 1..Len(lines) :
        /\ ~IsBlank(lines[k]) /\ ~IsTimestamp(lines[k])
        /\ \E t \in 1..(k - 1) :
             IsTimestamp(lines[t]) /\ \A j \in t..k : ~IsBlank(lines[j]) }

\* The cue text lines in input order, their markup tags removed and their
\* non-breaking spaces decoded.
RECURSIVE CueTexts(_, _)
CueTexts(lines, k) ==
    IF k > Len(lines) THEN <<>>
    ELSE IF k \in CueTextPositions(lines)
         THEN <<Trim(ReplaceNbsp(RemoveTags(Trim(lines[k]))))>> \o CueTexts(lines, k + 1)
         ELSE CueTexts(lines, k + 1)

\* C26: for every subtitle input the text parseVTT returns is exactly the
\* text lines of the cues, in input order, without their markup tags, joined
\* by single spaces: no header, identifier or timestamp line is in it and no
\* cue text line is lost.
C26_SubtitleTextIsCueText ==
    (parsed # None /\ parsed[1].kind = "dispatched" /\ parsed[1].parser = "parseVTT") =>
        parsed[1].text = Some(JoinWithSpace(CueTexts(buffer, 1)))


(***************************************************************************)
(* Further claims about the vector index (SpecIndex).                      *)
(***************************************************************************)
\* C27: under every interleaving of addDocument, deleteDocument and clearAll
\* every record of the vector store belongs to a document registered in the
\* document store, so no search returns a chunk of an unregistered document.
C27_RecordsBelongToRegisteredDocuments ==
    /\ \A k \in 1..Len(vectorStore) : vectorStore[k].documentId \in documentStore
    /\ \A k \in 1..Len(search.results) : search.results[k].document # "Unknown"


(***************************************************************************)
(* Further claims about the research agent (SpecResearch).                 *)
(***************************************************************************)
\* C28: in the citation list of a completed run every citation has an id
\* different from the id of every other citation of the list, however many
\* sub-question results contributed citations.
C28_CitationIdsDistinct ==
    query.status = "complete" =>
        \A i, j \in 1..Len(query.citations[1]) :
            i # j => query.citations[1][i].id # query.citations[1][j].id


\* C29: whenever searchSimilar is called with a documentIds filter, every
\* chunk it returns belongs to a document of the filter, the empty filter
\* included.
C29_ResultsRespectFilter ==
    (search.pc = "returned" /\ search.documentIds # None) =>
        \A k \in 1..Len(search.results) :
            search.results[k].chunk.documentId \in search.documentIds[1]


(***************************************************************************)
(* Further claims about the knowledge base client (SpecClient).            *)
(***************************************************************************)
\* C30: once the user has deleted a document in the knowledge base, the
\* vector index holds it no longer, and no later query returns chunks of a
\* document the knowledge base does not list.
C30_DeleteReachesIndex ==
    [][/\ \A f \in Files :
            (Includes(documents, DocumentIdOf(f)) /\ ~Includes(documents', DocumentIdOf(f)))
                => DocumentIdOf(f) \notin indexed'
       /\ queried' # queried =>
            \A id \in queried'[1] : Includes(documents', id)]_vars

=============================================================================
